---- MODULE Spec2Model ----
(***************************************************************************)
(* A model of the DotRepute reputation-scoring code.                       *)
(*                                                                         *)
(*  - "WASM into ink scoring logic.rs": the integer scoring logic          *)
(*    (MetricWeights, RawMetrics, ScoringEngine::compute_all_scores).      *)
(*  - "Standalone Rust Crate scoring.rs": ScoreCalculator::calculate.      *)
(*  - "Rust Scoring Engine.rs": the f64 ScoringEngine with its per-account *)
(*    score_history (calculate_score, clear_old_history, update_config).   *)
(*  - governance.rs: the OptionalReputation contract and Referendum.       *)
(*                                                                         *)
(* Unsigned machine integers are written as two-limb words                 *)
(*     [h |-> high, l |-> low]   standing for   h * 2^16 + l,              *)
(* because TLC's own integers stop at 2^31 - 1.  A u32 is a word with      *)
(* h < 2^16, so u32 arithmetic keeps its width exactly; u64 values are     *)
(* modelled up to 2^47 (h < 2^31).                                         *)
(***************************************************************************)
EXTENDS Integers, Sequences, FiniteSets, TLC

VARIABLES
    score_history,    \* ScoringEngine.score_history: account -> Seq(ScoreResult)
    config,           \* ScoringEngine.config
    overflow_checks,  \* build profile: TRUE = arithmetic overflow panics, FALSE = it wraps
    input,            \* the arguments of a call to one of the stateless functions
    call,             \* the last call made: its operation, arguments and result
    reputation,       \* the storage of the OptionalReputation contract
    referendum        \* a Referendum

vars == <<score_history, config, overflow_checks, input, call, reputation, referendum>>


-----------------------------------------------------------------------------
(* Words *)

Base == 2^16

W(n) == [h |-> n \div Base, l |-> n % Base]

Norm(h, l) == [h |-> h + (l \div Base), l |-> l % Base]

WAdd(a, b) == Norm(a.h + b.h, a.l + b.l)

\* a * k for a small factor k (k < 2^15)
WMul(a, k) == Norm(a.h * k, a.l * k)

\* a / k, rounded down, for a small divisor k (0 < k < 2^15)
WDiv(a, k) == [h |-> a.h \div k, l |-> ((a.h % k) * Base + a.l) \div k]

WShr1(a) == [h |-> a.h \div 2, l |-> ((a.h % 2) * Base + a.l) \div 2]

WLt(a, b) == a.h < b.h \/ (a.h = b.h /\ a.l < b.l)

WGt(a, b) == WLt(b, a)

WLe(a, b) == ~WLt(b, a)

\* the word as a TLC integer; only for words below 2^31
ToInt(a) == a.h * Base + a.l

U32_MAX == [h |-> Base - 1, l |-> Base - 1]

FitsU32(a) == a.h < Base

WrapU32(a) == [h |-> a.h % Base, l |-> a.l]

\* u32::saturating_mul by a small factor
SatMulU32(a, k) == IF FitsU32(WMul(a, k)) THEN WMul(a, k) ELSE U32_MAX

\* u32::saturating_add
SatAddU32(a, b) == IF FitsU32(WAdd(a, b)) THEN WAdd(a, b) ELSE U32_MAX

\* u64::saturating_sub
WSatSub(a, b) ==
    IF WLe(a, b) THEN W(0)
    ELSE IF a.l >= b.l THEN [h |-> a.h - b.h, l |-> a.l - b.l]
    ELSE [h |-> a.h - b.h - 1, l |-> a.l + Base - b.l]

WMin(a, b) == IF WLt(b, a) THEN b ELSE a

-----------------------------------------------------------------------------
(* Results of a call *)

Ok(v) == [kind |-> "Ok", val |-> v]

Err(e) == [kind |-> "Err", err |-> e]

\* the call did not return: an arithmetic overflow panicked
Panic == [kind |-> "Panic"]

IsOk(r) == r.kind = "Ok"

IsErr(r) == r.kind = "Err"

-----------------------------------------------------------------------------
(* WASM into ink scoring logic.rs *)

SECONDS_PER_DAY == 86400

MAX_GOVERNANCE_VOTES == 10000

MAX_GOVERNANCE_PROPOSALS == 1000

MAX_IDENTITY_JUDGEMENTS == 10

UPVOTES_PER_POST == 100

REQUIRED_TOTAL_WEIGHT == 100

\* MetricWeights::new: total_weight = governance + staking + identity + community
\* in u32, unchecked.  The sum panics under overflow checks and wraps without them.
MetricWeights_new(governance, staking, identity, community, checks) ==
    LET total == WAdd(WAdd(WAdd(governance, staking), identity), community)
    IN  IF ~FitsU32(total) /\ checks
        THEN Panic
        ELSE Ok([governance_weight |-> governance,
                 staking_weight    |-> staking,
                 identity_weight   |-> identity,
                 community_weight  |-> community,
                 total_weight      |-> WrapU32(total)])

MetricWeights_validate(weights) ==
    WGt(weights.total_weight, W(0))
    /\ weights.total_weight = W(REQUIRED_TOTAL_WEIGHT)

\* RawMetrics_validate with posts * 100 wrapping instead of saturating
RawMetrics_validate_wrapping(m) ==
    IF WGt(m.governance_votes, W(MAX_GOVERNANCE_VOTES))
    THEN Err("InvalidGovernanceVotes")
    ELSE IF WGt(m.governance_proposals, W(MAX_GOVERNANCE_PROPOSALS))
    THEN Err("InvalidGovernanceProposals")
    ELSE IF WGt(m.identity_judgements, W(MAX_IDENTITY_JUDGEMENTS))
    THEN Err("InvalidIdentityJudgements")
    ELSE IF WGt(m.community_upvotes, WrapU32(WMul(m.community_posts, UPVOTES_PER_POST)))
    THEN Err("SuspiciousUpvoteRatio")
    ELSE IF m.staking_amount = W(0) /\ WGt(m.staking_duration, W(0))
    THEN Err("InvalidStakingData")
    ELSE Ok("unit")

RawMetrics_validate(m) ==
    IF WGt(m.governance_votes, W(MAX_GOVERNANCE_VOTES))
    THEN Err("InvalidGovernanceVotes")
    ELSE IF WGt(m.governance_proposals, W(MAX_GOVERNANCE_PROPOSALS))
    THEN Err("InvalidGovernanceProposals")
    ELSE IF WGt(m.identity_judgements, W(MAX_IDENTITY_JUDGEMENTS))
    THEN Err("InvalidIdentityJudgements")
    ELSE IF WGt(m.community_upvotes, SatMulU32(m.community_posts, UPVOTES_PER_POST))
    THEN Err("SuspiciousUpvoteRatio")
    ELSE IF m.staking_amount = W(0) /\ WGt(m.staking_duration, W(0))
    THEN Err("InvalidStakingData")
    ELSE Ok("unit")

\* normalize halving a vote count above the limit instead of clamping it
RawMetrics_normalize_halving(m) ==
    LET m1 == IF WGt(m.governance_votes, W(MAX_GOVERNANCE_VOTES))
              THEN [m EXCEPT !.governance_votes = WShr1(m.governance_votes)] ELSE m
        m2 == IF WGt(m1.governance_proposals, W(MAX_GOVERNANCE_PROPOSALS))
              THEN [m1 EXCEPT !.governance_proposals = W(MAX_GOVERNANCE_PROPOSALS)] ELSE m1
        m3 == IF WGt(m2.identity_judgements, W(MAX_IDENTITY_JUDGEMENTS))
              THEN [m2 EXCEPT !.identity_judgements = W(MAX_IDENTITY_JUDGEMENTS)] ELSE m2
        m4 == IF WGt(m3.community_upvotes, SatMulU32(m3.community_posts, UPVOTES_PER_POST))
              THEN [m3 EXCEPT !.community_upvotes =
                                  SatMulU32(m3.community_posts, UPVOTES_PER_POST)]
              ELSE m3
    IN  IF m4.staking_amount = W(0) THEN [m4 EXCEPT !.staking_duration = W(0)] ELSE m4

RawMetrics_normalize(m) ==
    LET m1 == IF WGt(m.governance_votes, W(MAX_GOVERNANCE_VOTES))
              THEN [m EXCEPT !.governance_votes = W(MAX_GOVERNANCE_VOTES)] ELSE m
        m2 == IF WGt(m1.governance_proposals, W(MAX_GOVERNANCE_PROPOSALS))
              THEN [m1 EXCEPT !.governance_proposals = W(MAX_GOVERNANCE_PROPOSALS)] ELSE m1
        m3 == IF WGt(m2.identity_judgements, W(MAX_IDENTITY_JUDGEMENTS))
              THEN [m2 EXCEPT !.identity_judgements = W(MAX_IDENTITY_JUDGEMENTS)] ELSE m2
        m4 == IF WGt(m3.community_upvotes, SatMulU32(m3.community_posts, UPVOTES_PER_POST))
              THEN [m3 EXCEPT !.community_upvotes =
                                  SatMulU32(m3.community_posts, UPVOTES_PER_POST)]
              ELSE m3
    IN  IF m4.staking_amount = W(0) THEN [m4 EXCEPT !.staking_duration = W(0)] ELSE m4

\* staking_amount > 1_000_000_000_000_000, compared through the quotient by 10^6
ExceedsExtremeStaking(amount) ==
    LET q == WDiv(WDiv(amount, 1000), 1000)
    IN  \/ WGt(q, W(1000000000))
        \/ q = W(1000000000) /\ amount # WMul(WMul(q, 1000), 1000)

\* DataValidator::detect_anomalies: the anomalies pushed, in order
DataValidator_detect_anomalies(metrics) ==
    LET a1 == IF WGt(metrics.governance_votes, W(5000))
              THEN <<"HighGovernanceActivity">> ELSE << >>
        a2 == IF WGt(metrics.community_upvotes, SatMulU32(metrics.community_posts, 50))
              THEN Append(a1, "SuspiciousEngagement") ELSE a1
        a3 == IF WGt(metrics.identity_judgements, W(5)) /\ ~metrics.identity_verified
              THEN Append(a2, "InconsistentIdentity") ELSE a2
    IN  IF ExceedsExtremeStaking(metrics.staking_amount)
        THEN Append(a3, "ExtremeStaking") ELSE a3

safe_min(value, max) == IF WGt(value, max) THEN max ELSE value

RECURSIVE log2_loop(_, _)
log2_loop(n, log) == IF WGt(n, W(1)) THEN log2_loop(WShr1(n), log + 1) ELSE log

integer_log2(n) == IF n = W(0) THEN 0 ELSE log2_loop(n, 0)

RECURSIVE sqrt_loop(_, _, _)
sqrt_loop(n, x, y) == IF y < x THEN sqrt_loop(n, y, (y + n \div y) \div 2) ELSE x

\* n is a TLC integer here: the day counts the model reaches are below 2^31
integer_sqrt(n) ==
    IF n = 0 THEN 0
    ELSE IF n = 1 THEN 1
    ELSE sqrt_loop(n, n, (n + 1) \div 2)

log_scale(value, multiplier) ==
    IF value = W(0) THEN W(0)
    ELSE SatMulU32(W(integer_log2(value)), multiplier)

sqrt_scale(value, multiplier) == SatMulU32(W(integer_sqrt(ToInt(value))), multiplier)

\* duration / 86400 = (duration / 128) / 675
DurationDays(duration) == WDiv(WDiv(duration, 128), SECONDS_PER_DAY \div 128)

calculate_governance_score(m) ==
    SatAddU32(safe_min(SatMulU32(m.governance_votes, 2), W(50)),
              safe_min(SatMulU32(m.governance_proposals, 5), W(50)))

\* calculate_staking_score without the cap of 60 on the amount part
calculate_staking_score_uncapped(m) ==
    IF m.staking_amount = W(0) THEN W(0)
    ELSE SatAddU32(log_scale(m.staking_amount, 10),
                   WMin(sqrt_scale(DurationDays(m.staking_duration), 5), W(40)))

\* calculate_staking_score reducing the amount part modulo 60 instead of capping it
calculate_staking_score_modulo(m) ==
    IF m.staking_amount = W(0) THEN W(0)
    ELSE SatAddU32(W(ToInt(log_scale(m.staking_amount, 10)) % 60),
                   WMin(sqrt_scale(DurationDays(m.staking_duration), 5), W(40)))

calculate_staking_score(m) ==
    IF m.staking_amount = W(0) THEN W(0)
    ELSE SatAddU32(WMin(log_scale(m.staking_amount, 10), W(60)),
                   WMin(sqrt_scale(DurationDays(m.staking_duration), 5), W(40)))

calculate_identity_score(m) ==
    SatAddU32(IF m.identity_verified THEN W(50) ELSE W(0),
              safe_min(SatMulU32(m.identity_judgements, 10), W(50)))

calculate_community_score(m) ==
    SatAddU32(safe_min(m.community_posts, W(40)),
              safe_min(WDiv(m.community_upvotes, 2), W(60)))

\* scores.<x>_score as u64, saturating_mul(weights.<x>_weight as u64); a score is
\* below 2^15 in every call the model makes, so the product is exact
WeightedTerm(score, weight) == WMul(weight, ToInt(score))

\* calculate_weighted_score without the division by total_weight
calculate_weighted_score_undivided(scores, weights) ==
    IF ~MetricWeights_validate(weights) THEN Err("InvalidWeights")
    ELSE Ok(WAdd(WAdd(WAdd(WeightedTerm(scores.governance_score, weights.governance_weight),
                           WeightedTerm(scores.staking_score, weights.staking_weight)),
                      WeightedTerm(scores.identity_score, weights.identity_weight)),
                 WeightedTerm(scores.community_score, weights.community_weight)))

calculate_weighted_score(scores, weights) ==
    IF ~MetricWeights_validate(weights) THEN Err("InvalidWeights")
    ELSE IF weights.total_weight = W(0) THEN Err("DivisionByZero")
    ELSE LET total ==
                 WAdd(WAdd(WAdd(WeightedTerm(scores.governance_score, weights.governance_weight),
                                WeightedTerm(scores.staking_score, weights.staking_weight)),
                           WeightedTerm(scores.identity_score, weights.identity_weight)),
                      WeightedTerm(scores.community_score, weights.community_weight))
         IN  Ok(WDiv(total, ToInt(weights.total_weight)))

\* compute_all_scores checking the weights before the metrics
compute_all_scores_weights_first(m, weights) ==
    IF ~MetricWeights_validate(weights)
    THEN [result |-> Err("InvalidWeights"), trace |-> <<"calculate_weighted_score">>]
    ELSE IF IsErr(RawMetrics_validate(m))
    THEN [result |-> RawMetrics_validate(m),
          trace  |-> <<"calculate_weighted_score", "validate">>]
    ELSE [result |-> Ok([governance_score |-> calculate_governance_score(m),
                         staking_score    |-> calculate_staking_score(m),
                         identity_score   |-> calculate_identity_score(m),
                         community_score  |-> calculate_community_score(m),
                         total_score      |-> W(0),
                         weighted_total   |-> W(0)]),
          trace  |-> <<"calculate_weighted_score", "validate">>]

\* The result of compute_all_scores and, as trace, the functions it evaluated in order.
compute_all_scores(m, weights) ==
    LET scores == [governance_score |-> calculate_governance_score(m),
                   staking_score    |-> calculate_staking_score(m),
                   identity_score   |-> calculate_identity_score(m),
                   community_score  |-> calculate_community_score(m),
                   total_score      |-> WAdd(WAdd(WAdd(calculate_governance_score(m),
                                                       calculate_staking_score(m)),
                                                  calculate_identity_score(m)),
                                             calculate_community_score(m)),
                   weighted_total   |-> W(0)]
        weighted == calculate_weighted_score(scores, weights)
        transforms == <<"calculate_governance_score", "calculate_staking_score",
                        "calculate_identity_score", "calculate_community_score">>
    IN  IF IsErr(RawMetrics_validate(m))
        THEN [result |-> RawMetrics_validate(m), trace |-> <<"validate">>]
        ELSE IF IsErr(weighted)
        THEN [result |-> weighted,
              trace  |-> <<"validate">> \o transforms \o <<"calculate_weighted_score">>]
        ELSE [result |-> Ok([scores EXCEPT !.weighted_total = weighted.val]),
              trace  |-> <<"validate">> \o transforms \o <<"calculate_weighted_score">>]

-----------------------------------------------------------------------------
(* TimeDecayCalculator and PenaltyCalculator of the ink scoring logic *)

\* one pass of the `for _ in 0..days_elapsed` loop: the body, unless the loop has
\* left through `break`; `divide` is FALSE for the body without the division by 100
decay_step(st, retention_rate, divide) ==
    IF st.broke THEN st
    ELSE LET product == SatMulU32(st.factor, retention_rate)
             next    == IF divide THEN WDiv(product, 100) ELSE product
         IN  [factor |-> next, iterations |-> st.iterations + 1, broke |-> next = W(0)]

\* `days` passes of the loop, the first half of them and then, unless the loop has
\* left through `break`, the rest
RECURSIVE decay_run(_, _, _, _)
decay_run(st, retention_rate, divide, days) ==
    IF days = 0 THEN st
    ELSE IF days = 1 THEN decay_step(st, retention_rate, divide)
    ELSE LET half == decay_run(st, retention_rate, divide, days \div 2)
         IN  IF half.broke THEN half
             ELSE decay_run(half, retention_rate, divide, days - days \div 2)

\* the state of the loop before its first pass
DecayStart(factor) == [factor |-> factor, iterations |-> 0, broke |-> FALSE]

\* the `for _ in 0..days_elapsed` loop: the factor it leaves
decay_loop(factor, retention_rate, days) ==
    decay_run(DecayStart(factor), retention_rate, TRUE, days).factor

\* decay_loop without the division by 100
decay_loop_undivided(factor, retention_rate, days) ==
    decay_run(DecayStart(factor), retention_rate, FALSE, days).factor

\* calculate_decay counting a started day as a day
calculate_decay_started_days(elapsed_seconds, decay_rate_percent) ==
    IF WLe(W(100), decay_rate_percent) THEN W(0)
    ELSE LET days_elapsed == ToInt(DurationDays(WAdd(elapsed_seconds, W(SECONDS_PER_DAY - 1))))
         IN  IF days_elapsed = 0 THEN W(100)
             ELSE decay_loop(W(100), 100 - ToInt(decay_rate_percent), days_elapsed)

\* calculate_decay testing days_elapsed before decay_rate_percent
calculate_decay_days_first(elapsed_seconds, decay_rate_percent) ==
    LET days_elapsed == ToInt(DurationDays(elapsed_seconds))
    IN  IF days_elapsed = 0 THEN W(100)
        ELSE IF WLe(W(100), decay_rate_percent) THEN W(0)
        ELSE decay_loop(W(100), 100 - ToInt(decay_rate_percent), days_elapsed)

\* calculate_decay multiplying by the retention rate without dividing by 100
calculate_decay_undivided(elapsed_seconds, decay_rate_percent) ==
    IF WLe(W(100), decay_rate_percent) THEN W(0)
    ELSE LET days_elapsed == ToInt(DurationDays(elapsed_seconds))
         IN  IF days_elapsed = 0 THEN W(100)
             ELSE decay_loop_undivided(W(100), 100 - ToInt(decay_rate_percent), days_elapsed)

\* TimeDecayCalculator::calculate_decay; the day counts the model reaches are below 2^31
calculate_decay(elapsed_seconds, decay_rate_percent) ==
    IF WLe(W(100), decay_rate_percent) THEN W(0)
    ELSE LET days_elapsed == ToInt(DurationDays(elapsed_seconds))
         IN  IF days_elapsed = 0 THEN W(100)
             ELSE decay_loop(W(100), 100 - ToInt(decay_rate_percent), days_elapsed)

\* the number of times the body of the `for _ in 0..days_elapsed` loop runs, the
\* iteration that breaks on factor == 0 included
decay_loop_iterations(factor, retention_rate, days) ==
    decay_run(DecayStart(factor), retention_rate, TRUE, days).iterations

\* the loop iterations of one call of calculate_decay: none on the two early returns
calculate_decay_iterations(elapsed_seconds, decay_rate_percent) ==
    IF WLe(W(100), decay_rate_percent) THEN 0
    ELSE LET days_elapsed == ToInt(DurationDays(elapsed_seconds))
         IN  IF days_elapsed = 0 THEN 0
             ELSE decay_loop_iterations(W(100), 100 - ToInt(decay_rate_percent),
                                        days_elapsed)

\* PenaltyCalculator::calculate_penalties
calculate_penalties(m) ==
    LET p1 == IF ~m.identity_verified THEN SatAddU32(W(0), W(5)) ELSE W(0)
        p2 == IF m.governance_votes = W(0) /\ m.governance_proposals = W(0)
              THEN SatAddU32(p1, W(3)) ELSE p1
        p3 == IF m.staking_amount = W(0) THEN SatAddU32(p2, W(2)) ELSE p2
    IN  IF m.community_posts = W(0) THEN SatAddU32(p3, W(1)) ELSE p3

\* apply_penalties returning the distance between score and penalty
apply_penalties_abs_diff(score, penalty_points) ==
    IF WLe(penalty_points, score) THEN WSatSub(score, penalty_points)
    ELSE WSatSub(penalty_points, score)

\* PenaltyCalculator::apply_penalties
apply_penalties(score, penalty_points) == WSatSub(score, penalty_points)

-----------------------------------------------------------------------------
(* Standalone Rust Crate scoring.rs *)

\* a * k in u32, unchecked: [v |-> the wrapped product, o |-> whether it overflowed]
MulU32(a, k) == [v |-> WrapU32(WMul(a, k)), o |-> ~FitsU32(WMul(a, k))]

ScoreCalculator_calculate_governance(data) ==
    WAdd(WMin(MulU32(data.governance_votes, 2).v, W(50)),
         WMin(MulU32(data.governance_proposals, 5).v, W(50)))

ScoreCalculator_calculate_staking(data) ==
    IF data.staking_amount = W(0) THEN W(0)
    ELSE WAdd(WMin(W(integer_log2(data.staking_amount) * 10), W(60)),
              WMin(W(integer_sqrt(ToInt(DurationDays(data.staking_duration))) * 5), W(40)))

ScoreCalculator_calculate_identity(data) ==
    WAdd(IF data.identity_verified THEN W(50) ELSE W(0),
         WMin(MulU32(data.identity_judgements, 10).v, W(50)))

ScoreCalculator_calculate_community(data) ==
    WAdd(WMin(data.community_posts, W(40)),
         WMin(WDiv(data.community_upvotes, 2), W(60)))

ScoreCalculator_calculate_weighted(weights, gov, stake, id, comm) ==
    WDiv(WAdd(WAdd(WAdd(WMul(weights.governance_weight, ToInt(gov)),
                        WMul(weights.staking_weight, ToInt(stake))),
                   WMul(weights.identity_weight, ToInt(id))),
              WMul(weights.community_weight, ToInt(comm))),
         100)

\* ScoreCalculator::calculate for a calculator holding `weights`.  It never validates
\* `data`.  The unchecked u32 products panic under overflow checks.
ScoreCalculator_calculate(weights, data, checks) ==
    LET gov   == ScoreCalculator_calculate_governance(data)
        stake == ScoreCalculator_calculate_staking(data)
        id    == ScoreCalculator_calculate_identity(data)
        comm  == ScoreCalculator_calculate_community(data)
    IN  IF checks /\ (MulU32(data.governance_votes, 2).o
                      \/ MulU32(data.governance_proposals, 5).o
                      \/ MulU32(data.identity_judgements, 10).o)
        THEN Panic
        ELSE Ok([governance_score |-> gov,
                 staking_score    |-> stake,
                 identity_score   |-> id,
                 community_score  |-> comm,
                 total_score      |-> WAdd(WAdd(WAdd(gov, stake), id), comm),
                 weighted_score   |->
                     ScoreCalculator_calculate_weighted(weights, gov, stake, id, comm)])

\* WeightConfig::default
WeightConfig_default ==
    [governance_weight |-> W(30), staking_weight |-> W(30),
     identity_weight |-> W(20), community_weight |-> W(20)]

-----------------------------------------------------------------------------
(* Rust Scoring Engine.rs *)
(*                                                                         *)
(* f64 values are fixed-point numbers in thousandths, rounded towards      *)
(* zero: 1.0 is 1000 and a score of 100.0 is 100000.  NEG_INF stands for   *)
(* f64 negative infinity, which ln(0) produces.  Every weight the model    *)
(* configures is positive, so no NaN arises.  Timestamps are TLC integers: *)
(* the code only compares them and subtracts them saturating.              *)

NEG_INF == -(2^30)

FAdd(a, b) == IF a = NEG_INF \/ b = NEG_INF THEN NEG_INF ELSE a + b

\* a * b for b > 0
FMul(a, b) == IF a = NEG_INF THEN NEG_INF ELSE (a * b) \div 1000

FSub(a, b) == IF a = NEG_INF THEN NEG_INF ELSE a - b

FMax(a, b) == IF a = NEG_INF \/ a < b THEN b ELSE a

FMin(a, b) == IF a = NEG_INF \/ a < b THEN a ELSE b

\* (count as f64 * factor).min(cap) for a u32 count; factor and cap in thousandths
ScaledMin(count, factor, cap) ==
    IF WGt(count, W(cap \div factor)) THEN cap ELSE FMin(ToInt(count) * factor, cap)

\* 1000 * ln(n) for n = 1..8
LnTable == <<0, 693, 1098, 1386, 1609, 1791, 1945, 2079>>

\* ((amount as f64).ln() * 10.0).min(60.0): ln(0) is -inf, and ln(n) * 10 >= 60 from
\* n = 404 on.  Between 9 and 403 the logarithm is not tabulated: the model stakes no
\* such amount.
LnScore(amount) ==
    IF amount = W(0) THEN NEG_INF
    ELSE IF WGt(amount, W(403)) THEN 60000
    ELSE 10 * LnTable[ToInt(amount)]

\* ((duration as f64 / 86400.0).sqrt() * 5.0).min(40.0): 40 from 64 days on, and below
\* that 1000 * sqrt(d / 86400) = sqrt(d * 625 / 54)
SqrtScore(duration) ==
    IF WLe(W(64 * SECONDS_PER_DAY), duration) THEN 40000
    ELSE LET d == ToInt(duration)
         IN  FMin(5 * integer_sqrt((d \div 54) * 625 + ((d % 54) * 625) \div 54), 40000)

GovernanceScoreMetric_calculate(data) ==
    FAdd(ScaledMin(data.governance_votes, 2000, 50000),
         ScaledMin(data.governance_proposals, 5000, 50000))

StakingScoreMetric_calculate(data) ==
    FAdd(LnScore(data.staking_amount), SqrtScore(data.staking_duration))

IdentityScoreMetric_calculate(data) ==
    FAdd(IF data.identity_verified THEN 50000 ELSE 0,
         ScaledMin(data.identity_judgements, 10000, 50000))

CommunityScoreMetric_calculate(data) ==
    FAdd(ScaledMin(data.community_posts, 1000, 40000),
         ScaledMin(data.community_upvotes, 500, 60000))

\* The loop over self.metrics calling validate_data: governance, staking, identity,
\* community, stopping at the first error.  community_posts * 100 is an unchecked
\* u32 product.
validate_data(data, checks) ==
    IF WGt(data.governance_votes, W(10000))
    THEN Err("Unrealistic governance votes count")
    ELSE IF WGt(data.governance_proposals, W(1000))
    THEN Err("Unrealistic proposals count")
    ELSE IF data.staking_amount = W(0) /\ WGt(data.staking_duration, W(0))
    THEN Err("Invalid staking data: duration without amount")
    ELSE IF WGt(data.identity_judgements, W(10))
    THEN Err("Unrealistic judgements count")
    ELSE IF checks /\ MulU32(data.community_posts, 100).o
    THEN Panic
    ELSE IF WGt(data.community_upvotes, MulU32(data.community_posts, 100).v)
    THEN Err("Suspicious upvote ratio")
    ELSE Ok("unit")

\* DataCleaner::normalize_chain_data: community_posts * 100 is an unchecked u32 product,
\* evaluated in the comparison whatever the upvotes are
normalize_chain_data(data, checks) ==
    LET d1 == IF WGt(data.governance_votes, W(10000))
              THEN [data EXCEPT !.governance_votes = W(10000)] ELSE data
        d2 == IF WGt(d1.governance_proposals, W(1000))
              THEN [d1 EXCEPT !.governance_proposals = W(1000)] ELSE d1
        d3 == IF WGt(d2.community_upvotes, MulU32(d2.community_posts, 100).v)
              THEN [d2 EXCEPT !.community_upvotes = MulU32(d2.community_posts, 100).v]
              ELSE d2
    IN  IF checks /\ MulU32(data.community_posts, 100).o
        THEN Panic
        ELSE Ok(IF d3.staking_amount = W(0) THEN [d3 EXCEPT !.staking_duration = W(0)]
                ELSE d3)

\* DataCleaner::detect_anomalies: community_posts * 50 is an unchecked u32 product
DataCleaner_detect_anomalies(data, checks) ==
    LET a1 == IF WGt(data.governance_votes, W(5000))
              THEN <<"Unusually high governance votes">> ELSE << >>
        a2 == IF WGt(data.community_upvotes, MulU32(data.community_posts, 50).v)
              THEN Append(a1, "Suspicious upvote ratio") ELSE a1
        a3 == IF WGt(data.identity_judgements, W(5)) /\ ~data.identity_verified
              THEN Append(a2, "Judgements without verification") ELSE a2
    IN  IF checks /\ MulU32(data.community_posts, 50).o THEN Panic ELSE Ok(a3)

SatSub(a, b) == IF a > b THEN a - b ELSE 0

\* rate.powf(days) for a whole number of days: the timestamps of the model are whole
\* days apart
RECURSIVE PowF(_, _)
PowF(rate, days) == IF days = 0 THEN 1000 ELSE FMul(PowF(rate, days - 1), rate)

HasHistory(history, account_id) ==
    account_id \in DOMAIN history /\ Len(history[account_id]) > 0

\* apply_time_decay reading a missing history as a snapshot at timestamp 0
apply_time_decay_from_epoch(history, cfg, account_id, current_timestamp) ==
    IF HasHistory(history, account_id)
    THEN LET last_score == history[account_id][Len(history[account_id])]
             time_diff  == SatSub(current_timestamp, last_score.timestamp)
         IN  PowF(cfg.time_decay_rate, time_diff \div SECONDS_PER_DAY)
    ELSE PowF(cfg.time_decay_rate, current_timestamp \div SECONDS_PER_DAY)

\* apply_time_decay reading history.first() instead of history.last()
apply_time_decay_first(history, cfg, account_id, current_timestamp) ==
    IF HasHistory(history, account_id)
    THEN LET first_score == history[account_id][1]
             time_diff   == SatSub(current_timestamp, first_score.timestamp)
         IN  PowF(cfg.time_decay_rate, time_diff \div SECONDS_PER_DAY)
    ELSE 1000

apply_time_decay(history, cfg, account_id, current_timestamp) ==
    IF HasHistory(history, account_id)
    THEN LET last_score == history[account_id][Len(history[account_id])]
             time_diff  == SatSub(current_timestamp, last_score.timestamp)
         IN  PowF(cfg.time_decay_rate, time_diff \div SECONDS_PER_DAY)
    ELSE 1000

calculate_negative_adjustments(data) ==
    (IF ~data.identity_verified THEN 5000 ELSE 0)
    + (IF data.governance_votes = W(0) /\ data.governance_proposals = W(0) THEN 3000 ELSE 0)
    + (IF data.staking_amount = W(0) THEN 2000 ELSE 0)

\* store_score_history overwriting the account's entry instead of pushing to it
store_score_history_overwrite(history, result) ==
    [a \in DOMAIN history \cup {result.account_id} |->
        IF a = result.account_id THEN <<result>> ELSE history[a]]

\* store_score_history skipping a snapshot equal to one the account already holds
store_score_history_dedup(history, result) ==
    IF result.account_id \in DOMAIN history
    THEN IF \E k \in 1..Len(history[result.account_id]) :
                history[result.account_id][k] = result
         THEN history
         ELSE [history EXCEPT ![result.account_id] = Append(@, result)]
    ELSE [a \in DOMAIN history \cup {result.account_id} |->
             IF a = result.account_id THEN <<result>> ELSE history[a]]

store_score_history(history, result) ==
    IF result.account_id \in DOMAIN history
    THEN [history EXCEPT ![result.account_id] = Append(@, result)]
    ELSE [a \in DOMAIN history \cup {result.account_id} |->
             IF a = result.account_id THEN <<result>> ELSE history[a]]

\* calculate_score returning the failure only after storing a record for the call
ValidationFailed_stored(history, data, failure) ==
    [result  |-> failure,
     history |-> store_score_history(history, [account_id |-> data.account_id,
                                               timestamp  |-> data.timestamp])]

\* What calculate_score returns and leaves in score_history when validate_data fails:
\* the `?` returns before anything is computed or stored.
ValidationFailed(history, data, failure) == [result |-> failure, history |-> history]

\* The ScoreResult calculate_score builds once validate_data has passed.
ScoreOf(history, cfg, data) ==
    LET governance_score == GovernanceScoreMetric_calculate(data.metrics)
        staking_score    == StakingScoreMetric_calculate(data.metrics)
        identity_score   == IdentityScoreMetric_calculate(data.metrics)
        community_score  == CommunityScoreMetric_calculate(data.metrics)
        weighted_governance == FMul(governance_score, cfg.governance_weight)
        weighted_staking    == FMul(staking_score, cfg.staking_weight)
        weighted_identity   == FMul(identity_score, cfg.identity_weight)
        weighted_community  == FMul(community_score, cfg.community_weight)
        total0 == FAdd(FAdd(FAdd(weighted_governance, weighted_staking),
                            weighted_identity), weighted_community)
        time_decay_factor ==
            IF cfg.time_decay_enabled
            THEN apply_time_decay(history, cfg, data.account_id, data.timestamp)
            ELSE 1000
        total1 == FMul(total0, time_decay_factor)
        negative_adjustments ==
            IF cfg.negative_scoring_enabled
            THEN calculate_negative_adjustments(data.metrics)
            ELSE 0
        total2 == FSub(total1, negative_adjustments)
    IN  [account_id       |-> data.account_id,
         total_score      |-> FMin(FMax(total2, cfg.min_score), cfg.max_score),
         governance_score |-> governance_score,
         staking_score    |-> staking_score,
         identity_score   |-> identity_score,
         community_score  |-> community_score,
         timestamp        |-> data.timestamp,
         breakdown        |-> [weighted_governance  |-> weighted_governance,
                               weighted_staking     |-> weighted_staking,
                               weighted_identity    |-> weighted_identity,
                               weighted_community   |-> weighted_community,
                               time_decay_factor    |-> time_decay_factor,
                               negative_adjustments |-> negative_adjustments]]

\* ScoringEngine::calculate_score: its result and the score_history it leaves
calculate_score(history, cfg, data, checks) ==
    IF ~IsOk(validate_data(data.metrics, checks))
    THEN ValidationFailed(history, data, validate_data(data.metrics, checks))
    ELSE [result  |-> Ok(ScoreOf(history, cfg, data)),
          history |-> store_score_history(history, ScoreOf(history, cfg, data))]

\* clear_old_history retaining only the snapshots younger than max_age_seconds
clear_old_history_strict(history, max_age_seconds, current_timestamp) ==
    LET fresh(score) == SatSub(current_timestamp, score.timestamp) < max_age_seconds
    IN  [a \in DOMAIN history |-> SelectSeq(history[a], fresh)]

\* ScoringEngine::clear_old_history
clear_old_history(history, max_age_seconds, current_timestamp) ==
    LET fresh(score) == SatSub(current_timestamp, score.timestamp) <= max_age_seconds
    IN  [a \in DOMAIN history |-> SelectSeq(history[a], fresh)]

\* data_batch.into_iter().map(|data| self.calculate_score(data)).collect(): the items
\* are scored one after the other on the same engine, `results` being the results
\* collected so far.  A panic in one call unwinds the whole call: no vector is returned,
\* and what the earlier items stored stays stored.
RECURSIVE map_calculate_score(_, _, _, _, _)
map_calculate_score(history, cfg, data_batch, checks, results) ==
    IF data_batch = << >>
    THEN [result |-> Ok(results), history |-> history]
    ELSE LET out == calculate_score(history, cfg, Head(data_batch), checks)
         IN  IF out.result = Panic
             THEN [result |-> Panic, history |-> out.history]
             ELSE map_calculate_score(out.history, cfg, Tail(data_batch), checks,
                                      Append(results, out.result))

\* ScoringEngine::calculate_batch_scores
calculate_batch_scores(history, cfg, data_batch, checks) ==
    map_calculate_score(history, cfg, data_batch, checks, << >>)

-----------------------------------------------------------------------------
(* Arguments the stateless functions are called with *)

\* 10^12, the staking amount of the tests
TenToTwelve == WMul(WMul(W(1000000), 1000), 1000)

VotesSet == {W(0), W(50), W(10000), W(10001)}

ProposalsSet == {W(0), W(1000), W(1001)}

AmountSet == {W(0), W(8), TenToTwelve}

DurationSet == {W(0), W(2592000), W(5529600)}

JudgementsSet == {W(0), W(3), W(10), W(11)}

\* 42949673 * 100 is the first product past u32::MAX
PostsSet == {W(0), W(100), W(42949673)}

UpvotesSet == {W(0), W(10001), U32_MAX}

MetricsSet ==
    [governance_votes : VotesSet, governance_proposals : ProposalsSet,
     staking_amount : AmountSet, staking_duration : DurationSet,
     identity_verified : BOOLEAN, identity_judgements : JudgementsSet,
     community_posts : PostsSet, community_upvotes : UpvotesSet]

\* the arguments of MetricWeights::new
WeightArgsSet ==
    { <<W(30), W(30), W(20), W(20)>>,
      <<W(30), W(30), W(20), W(15)>>,
      <<W(100), W(0), W(0), W(0)>>,
      <<W(0), W(0), W(0), W(0)>>,
      <<U32_MAX, W(101), W(0), W(0)>> }

ComponentSet == {W(0), W(75), W(100), W(150)}

ScoresSet ==
    [governance_score : ComponentSet, staking_score : ComponentSet,
     identity_score : ComponentSet, community_score : ComponentSet,
     total_score : {W(0)}, weighted_total : {W(0)}]

\* elapsed seconds: none, half a day, a second short of a day, 1, 2, 10, 30, 100 and 200
\* days
ElapsedSet ==
    {W(0), W(43200), W(86399), W(86400), W(172800), W(864000), W(2592000), W(8640000),
     W(17280000)}

RateSet == {W(0), W(1), W(5), W(50), W(99), W(100), W(101), U32_MAX}

ScoreSet == {W(0), W(5), W(10), W(11), W(100), TenToTwelve}

PenaltySet == {W(0), W(5), W(11), W(200), U32_MAX}

\* staking amounts around the steps of the logarithm and its cap
StakeSet == {W(0), W(1), W(2), W(3), W(8), W(63), W(64), W(65), TenToTwelve}

\* the largest word of the model, standing in for the top of the u64 range
WORD_MAX == [h |-> 2147483647, l |-> Base - 1]

\* metrics far outside what validate accepts: 2^31, u32::MAX and the largest word
ExtremeMetricsSet ==
    [governance_votes : {W(0), [h |-> 2^15, l |-> 0], U32_MAX},
     governance_proposals : {W(1000), U32_MAX},
     staking_amount : {W(0), WORD_MAX}, staking_duration : {W(0), WORD_MAX},
     identity_verified : BOOLEAN, identity_judgements : {W(10), U32_MAX},
     community_posts : {U32_MAX}, community_upvotes : {W(0), U32_MAX}]

LogicInputs ==
    [kind : {"metrics"}, metrics : MetricsSet]
    \cup [kind : {"scoring"}, metrics : MetricsSet, weights : WeightArgsSet]
    \cup [kind : {"scores"}, scores : ScoresSet, weights : WeightArgsSet]
    \cup [kind : {"decay"}, elapsed_seconds : ElapsedSet, decay_rate_percent : RateSet]
    \cup [kind : {"penalty"}, score : ScoreSet, penalty_points : PenaltySet]
    \cup [kind : {"stakes"}, a : StakeSet, b : StakeSet, duration : DurationSet]
    \cup [kind : {"extreme"}, metrics : ExtremeMetricsSet]

Idle == [op |-> "idle"]

NewWeights(args) == MetricWeights_new(args[1], args[2], args[3], args[4], overflow_checks)

-----------------------------------------------------------------------------
(* The f64 scoring engine: state before any call *)

ConfigDefault ==
    [governance_weight |-> 300, staking_weight |-> 300,
     identity_weight |-> 200, community_weight |-> 200,
     time_decay_enabled |-> TRUE, time_decay_rate |-> 950,
     negative_scoring_enabled |-> TRUE, min_score |-> 0, max_score |-> 100000]

EngineNew ==
    /\ score_history = << >>
    /\ config = ConfigDefault

\* no contract deployed and no referendum created: the scoring code uses neither
NoGovernance ==
    /\ reputation = [deployed |-> FALSE]
    /\ referendum = [created |-> FALSE]

-----------------------------------------------------------------------------
(* Calls of the stateless functions: one call on arguments chosen at the start *)

InitLogic ==
    /\ EngineNew
    /\ NoGovernance
    /\ overflow_checks \in BOOLEAN
    /\ input \in LogicInputs
    /\ call = Idle

Validate ==
    /\ call = Idle /\ input.kind = "metrics"
    /\ call' = [op |-> "validate", result |-> RawMetrics_validate(input.metrics)]
    /\ UNCHANGED <<score_history, config, overflow_checks, input, reputation, referendum>>

\* metrics.normalize(), then normalize() again on the result
Normalize ==
    /\ call = Idle /\ input.kind \in {"metrics", "extreme"}
    /\ call' = [op     |-> "normalize",
                result |-> RawMetrics_normalize(input.metrics),
                again  |-> RawMetrics_normalize(RawMetrics_normalize(input.metrics))]
    /\ UNCHANGED <<score_history, config, overflow_checks, input, reputation, referendum>>

\* MetricWeights::new(..) followed by ScoringEngine::compute_all_scores(&metrics, &weights);
\* when the constructor panics, compute_all_scores is never called
ComputeAllScores ==
    /\ call = Idle /\ input.kind = "scoring"
    /\ call' = IF IsOk(NewWeights(input.weights))
               THEN [op     |-> "compute_all_scores",
                     result |-> compute_all_scores(input.metrics,
                                                   NewWeights(input.weights).val).result,
                     trace  |-> compute_all_scores(input.metrics,
                                                   NewWeights(input.weights).val).trace]
               ELSE [op |-> "MetricWeights::new", result |-> Panic]
    /\ UNCHANGED <<score_history, config, overflow_checks, input, reputation, referendum>>

\* MetricWeights::new(..) followed by ScoringEngine::calculate_weighted_score(&scores, &weights);
\* when the constructor panics, calculate_weighted_score is never called
CalculateWeightedScore ==
    /\ call = Idle /\ input.kind = "scores"
    /\ call' = IF IsOk(NewWeights(input.weights))
               THEN [op     |-> "calculate_weighted_score",
                     result |-> calculate_weighted_score(input.scores,
                                                         NewWeights(input.weights).val)]
               ELSE [op |-> "MetricWeights::new", result |-> Panic]
    /\ UNCHANGED <<score_history, config, overflow_checks, input, reputation, referendum>>

\* ScoreCalculator::new().calculate(&data)
ScoreCalculatorCalculate ==
    /\ call = Idle /\ input.kind \in {"metrics", "extreme"}
    /\ call' = [op     |-> "ScoreCalculator::calculate",
                result |-> ScoreCalculator_calculate(WeightConfig_default, input.metrics,
                                                     overflow_checks)]
    /\ UNCHANGED <<score_history, config, overflow_checks, input, reputation, referendum>>

CalculateDecay ==
    /\ call = Idle /\ input.kind = "decay"
    /\ call' = [op     |-> "calculate_decay",
                result |-> calculate_decay(input.elapsed_seconds, input.decay_rate_percent),
                iterations |-> calculate_decay_iterations(input.elapsed_seconds,
                                                          input.decay_rate_percent)]
    /\ UNCHANGED <<score_history, config, overflow_checks, input, reputation, referendum>>

CalculatePenalties ==
    /\ call = Idle /\ input.kind = "metrics"
    /\ call' = [op |-> "calculate_penalties", result |-> calculate_penalties(input.metrics)]
    /\ UNCHANGED <<score_history, config, overflow_checks, input, reputation, referendum>>

\* the f64 engine's penalty for the same metrics
CalculateNegativeAdjustments ==
    /\ call = Idle /\ input.kind = "metrics"
    /\ call' = [op     |-> "calculate_negative_adjustments",
                result |-> calculate_negative_adjustments(input.metrics)]
    /\ UNCHANGED <<score_history, config, overflow_checks, input, reputation, referendum>>

ApplyPenalties ==
    /\ call = Idle /\ input.kind = "penalty"
    /\ call' = [op     |-> "apply_penalties",
                result |-> apply_penalties(input.score, input.penalty_points)]
    /\ UNCHANGED <<score_history, config, overflow_checks, input, reputation, referendum>>

\* calculate_staking_score on two metrics that differ in staking_amount only
CalculateStakingScores ==
    /\ call = Idle /\ input.kind = "stakes"
    /\ call' = [op |-> "calculate_staking_score",
                of_a |-> calculate_staking_score([staking_amount   |-> input.a,
                                                  staking_duration |-> input.duration]),
                of_b |-> calculate_staking_score([staking_amount   |-> input.b,
                                                  staking_duration |-> input.duration])]
    /\ UNCHANGED <<score_history, config, overflow_checks, input, reputation, referendum>>

\* the four calculate_*_score transforms of the ink logic, called without validate
CalculateComponentScores ==
    /\ call = Idle /\ input.kind \in {"metrics", "extreme"}
    /\ call' = [op     |-> "calculate_component_scores",
                result |-> [governance_score |-> calculate_governance_score(input.metrics),
                            staking_score    |-> calculate_staking_score(input.metrics),
                            identity_score   |-> calculate_identity_score(input.metrics),
                            community_score  |-> calculate_community_score(input.metrics)]]
    /\ UNCHANGED <<score_history, config, overflow_checks, input, reputation, referendum>>

\* DataCleaner::normalize_chain_data(&mut data) of the f64 engine
NormalizeChainData ==
    /\ call = Idle /\ input.kind \in {"metrics", "extreme"}
    /\ call' = [op     |-> "normalize_chain_data",
                result |-> normalize_chain_data(input.metrics, overflow_checks)]
    /\ UNCHANGED <<score_history, config, overflow_checks, input, reputation, referendum>>

\* DataValidator::detect_anomalies(&metrics) and DataCleaner::detect_anomalies(&data)
DetectAnomalies ==
    /\ call = Idle /\ input.kind \in {"metrics", "extreme"}
    /\ call' = [op        |-> "detect_anomalies",
                validator |-> DataValidator_detect_anomalies(input.metrics),
                cleaner   |-> DataCleaner_detect_anomalies(input.metrics, overflow_checks)]
    /\ UNCHANGED <<score_history, config, overflow_checks, input, reputation, referendum>>

NextLogic ==
    \/ Validate
    \/ Normalize
    \/ ComputeAllScores
    \/ CalculateWeightedScore
    \/ ScoreCalculatorCalculate
    \/ CalculateDecay
    \/ CalculatePenalties
    \/ CalculateNegativeAdjustments
    \/ ApplyPenalties
    \/ CalculateStakingScores
    \/ CalculateComponentScores
    \/ NormalizeChainData
    \/ DetectAnomalies

SpecLogic == InitLogic /\ [][NextLogic]_vars

-----------------------------------------------------------------------------
(* The f64 scoring engine as a state machine *)

\* the most snapshots score_history holds in all
MaxSnapshots == 3

Accounts == {"alice", "bob"}

\* the timestamps of the calls: day 0 and day 1
Timestamps == {0, SECONDS_PER_DAY}

\* create_test_data() of the engine's tests
TestMetrics ==
    [governance_votes |-> W(50), governance_proposals |-> W(5),
     staking_amount |-> TenToTwelve, staking_duration |-> W(2592000),
     identity_verified |-> TRUE, identity_judgements |-> W(2),
     community_posts |-> W(100), community_upvotes |-> W(500)]

\* an account with no activity at all
InactiveMetrics ==
    [governance_votes |-> W(0), governance_proposals |-> W(0),
     staking_amount |-> W(0), staking_duration |-> W(0),
     identity_verified |-> FALSE, identity_judgements |-> W(0),
     community_posts |-> W(0), community_upvotes |-> W(0)]

\* the two above, one record breaking a validation rule, and one whose
\* community_posts * 100 overflows u32
EngineMetricsSet ==
    { TestMetrics,
      InactiveMetrics,
      [TestMetrics EXCEPT !.governance_votes = W(20000)],
      [TestMetrics EXCEPT !.community_posts = W(42949673)] }

ChainDataSet == [account_id : Accounts, metrics : EngineMetricsSet, timestamp : Timestamps]

\* the configurations update_config installs
ConfigSet == {ConfigDefault, [ConfigDefault EXCEPT !.time_decay_enabled = FALSE]}

MaxAgeSet == {0, SECONDS_PER_DAY}

RECURSIVE SnapshotCount(_, _)
SnapshotCount(history, accounts) ==
    IF accounts = {} THEN 0
    ELSE LET a == CHOOSE x \in accounts : TRUE
         IN  Len(history[a]) + SnapshotCount(history, accounts \ {a})

Init ==
    /\ EngineNew
    /\ NoGovernance
    /\ overflow_checks \in BOOLEAN
    /\ input = [kind |-> "none"]
    /\ call = Idle

CalculateScore ==
    \E data \in ChainDataSet :
        LET out == calculate_score(score_history, config, data, overflow_checks)
        IN  /\ SnapshotCount(score_history, DOMAIN score_history) < MaxSnapshots
            /\ score_history' = out.history
            /\ call' = [op |-> "calculate_score", result |-> out.result]
            /\ UNCHANGED <<config, overflow_checks, input, reputation, referendum>>

ClearOldHistory ==
    \E max_age_seconds \in MaxAgeSet, current_timestamp \in Timestamps :
        /\ score_history' =
               clear_old_history(score_history, max_age_seconds, current_timestamp)
        /\ call' = [op |-> "clear_old_history", max_age_seconds |-> max_age_seconds,
                    current_timestamp |-> current_timestamp]
        /\ UNCHANGED <<config, overflow_checks, input, reputation, referendum>>

\* The ScoreResult the closure of calculate_parallel_scores builds once validate_data
\* has passed: no decay, no penalty.
ParallelScoreOf(cfg, data) ==
    LET governance_score == GovernanceScoreMetric_calculate(data.metrics)
        staking_score    == StakingScoreMetric_calculate(data.metrics)
        identity_score   == IdentityScoreMetric_calculate(data.metrics)
        community_score  == CommunityScoreMetric_calculate(data.metrics)
        weighted_governance == FMul(governance_score, cfg.governance_weight)
        weighted_staking    == FMul(staking_score, cfg.staking_weight)
        weighted_identity   == FMul(identity_score, cfg.identity_weight)
        weighted_community  == FMul(community_score, cfg.community_weight)
        total0 == FAdd(FAdd(FAdd(weighted_governance, weighted_staking),
                            weighted_identity), weighted_community)
    IN  [account_id       |-> data.account_id,
         total_score      |-> FMin(FMax(total0, cfg.min_score), cfg.max_score),
         governance_score |-> governance_score,
         staking_score    |-> staking_score,
         identity_score   |-> identity_score,
         community_score  |-> community_score,
         timestamp        |-> data.timestamp,
         breakdown        |-> [weighted_governance  |-> weighted_governance,
                               weighted_staking     |-> weighted_staking,
                               weighted_identity    |-> weighted_identity,
                               weighted_community   |-> weighted_community,
                               time_decay_factor    |-> 1000,
                               negative_adjustments |-> 0]]

\* ScoringEngine::calculate_parallel_scores: data_batch.par_iter().map(..).collect() on
\* `&self`.  The closure reads self.metrics and self.config only, so the order in which
\* the items are mapped does not show; a panic in one closure is raised again in the
\* caller.  score_history is neither read nor written.
calculate_parallel_scores(history, cfg, data_batch, checks) ==
    LET item(i) == IF ~IsOk(validate_data(data_batch[i].metrics, checks))
                   THEN validate_data(data_batch[i].metrics, checks)
                   ELSE Ok(ParallelScoreOf(cfg, data_batch[i]))
    IN  [result  |-> IF \E i \in DOMAIN data_batch : item(i) = Panic
                     THEN Panic
                     ELSE Ok([i \in DOMAIN data_batch |-> item(i)]),
         history |-> history]

UpdateConfig ==
    \E new_config \in ConfigSet :
        /\ config' = new_config
        /\ call' = [op |-> "update_config"]
        /\ UNCHANGED <<score_history, overflow_checks, input, reputation, referendum>>

Next ==
    \/ CalculateScore
    \/ ClearOldHistory
    \/ UpdateConfig

Spec == Init /\ [][Next]_vars

-----------------------------------------------------------------------------
(* The f64 scoring engine scoring batches *)

\* the items of the batches: a repeated account, a record breaking a validation rule,
\* a second account and a record whose community_posts * 100 overflows u32
BatchItems ==
    { [account_id |-> "alice", metrics |-> TestMetrics, timestamp |-> 0],
      [account_id |-> "alice", metrics |-> TestMetrics, timestamp |-> SECONDS_PER_DAY],
      [account_id |-> "alice", metrics |-> [TestMetrics EXCEPT !.governance_votes = W(20000)],
       timestamp |-> SECONDS_PER_DAY],
      [account_id |-> "bob", metrics |-> InactiveMetrics, timestamp |-> SECONDS_PER_DAY],
      [account_id |-> "bob", metrics |-> [TestMetrics EXCEPT !.community_posts = W(42949673)],
       timestamp |-> 0] }

\* the batches: no item, one item, two items
BatchSet ==
    {<< >>} \cup {<<a>> : a \in BatchItems} \cup {<<a, b>> : a \in BatchItems, b \in BatchItems}

InitBatch ==
    /\ EngineNew
    /\ NoGovernance
    /\ overflow_checks \in BOOLEAN
    /\ input = [kind |-> "none"]
    /\ call = Idle

CalculateBatchScores ==
    \E data_batch \in BatchSet :
        LET out == calculate_batch_scores(score_history, config, data_batch, overflow_checks)
        IN  /\ SnapshotCount(score_history, DOMAIN score_history) + Len(data_batch)
                   <= MaxSnapshots
            /\ score_history' = out.history
            /\ call' = [op |-> "calculate_batch_scores", data_batch |-> data_batch,
                        result |-> out.result]
            /\ UNCHANGED <<config, overflow_checks, input, reputation, referendum>>

\* engine.calculate_parallel_scores(data_batch); `sequential` is what
\* calculate_batch_scores returns and leaves for the same batch on the same engine
CalculateParallelScores ==
    \E data_batch \in BatchSet :
        LET out == calculate_parallel_scores(score_history, config, data_batch,
                                             overflow_checks)
        IN  /\ SnapshotCount(score_history, DOMAIN score_history) + Len(data_batch)
                   <= MaxSnapshots
            /\ score_history' = out.history
            /\ call' = [op |-> "calculate_parallel_scores", data_batch |-> data_batch,
                        result |-> out.result,
                        sequential |-> calculate_batch_scores(score_history, config,
                                                              data_batch, overflow_checks)]
            /\ UNCHANGED <<config, overflow_checks, input, reputation, referendum>>

NextBatch ==
    \/ CalculateBatchScores
    \/ CalculateParallelScores

SpecBatch == InitBatch /\ [][NextBatch]_vars

-----------------------------------------------------------------------------
(* The f64 scoring engine called by several callers at once *)
(*                                                                         *)
(* calculate_score takes `&mut self`: a caller holds the engine exclusively *)
(* for the whole call, and the function has no point at which it yields.   *)
(* Calls issued at the same time are therefore admitted one after the      *)
(* other, in an order the callers do not control.                          *)

\* the number of callers with a call outstanding
NumCallers == 3

Callers == 1..NumCallers

\* what the callers ask for: both accounts, both timestamps, and a record breaking a
\* validation rule
RequestSet ==
    { [account_id |-> "alice", metrics |-> TestMetrics, timestamp |-> 0],
      [account_id |-> "alice", metrics |-> TestMetrics, timestamp |-> SECONDS_PER_DAY],
      [account_id |-> "alice", metrics |-> [TestMetrics EXCEPT !.governance_votes = W(20000)],
       timestamp |-> SECONDS_PER_DAY],
      [account_id |-> "bob", metrics |-> TestMetrics, timestamp |-> 0],
      [account_id |-> "bob", metrics |-> TestMetrics, timestamp |-> SECONDS_PER_DAY],
      [account_id |-> "bob", metrics |-> [TestMetrics EXCEPT !.governance_votes = W(20000)],
       timestamp |-> 0] }

\* input.requests[i] is the ChainData of caller i, input.results[i] what its call returned
InitConcurrent ==
    /\ EngineNew
    /\ NoGovernance
    /\ overflow_checks \in BOOLEAN
    /\ input \in [kind : {"callers"}, requests : [Callers -> RequestSet], results : {<< >>}]
    /\ call = Idle

\* the engine is handed to one of the callers still waiting, whose call runs to its end
AdmitCaller ==
    \E i \in Callers \ DOMAIN input.results :
        LET out == calculate_score(score_history, config, input.requests[i], overflow_checks)
        IN  /\ score_history' = out.history
            /\ call' = [op |-> "calculate_score", caller |-> i, result |-> out.result]
            /\ input' = [input EXCEPT !.results =
                             [j \in DOMAIN @ \cup {i} |-> IF j = i THEN out.result ELSE @[j]]]
            /\ UNCHANGED <<config, overflow_checks, reputation, referendum>>

NextConcurrent == AdmitCaller

SpecConcurrent == InitConcurrent /\ [][NextConcurrent]_vars

-----------------------------------------------------------------------------
(* Properties of the stateless functions, checked under SpecLogic *)

\* the four weights added as numbers, without the u32 width
WeightSum(args) == WAdd(WAdd(WAdd(args[1], args[2]), args[3]), args[4])

\* the validation rules as the contract words them, in exact arithmetic
RulesHold(m) ==
    /\ WLe(m.governance_votes, W(10000))
    /\ WLe(m.governance_proposals, W(1000))
    /\ WLe(m.identity_judgements, W(10))
    /\ WLe(m.community_upvotes, WMul(m.community_posts, 100))
    /\ ~(m.staking_amount = W(0) /\ WGt(m.staking_duration, W(0)))

RuleBroken(err, m) ==
    \/ err = "InvalidGovernanceVotes" /\ WGt(m.governance_votes, W(10000))
    \/ err = "InvalidGovernanceProposals" /\ WGt(m.governance_proposals, W(1000))
    \/ err = "InvalidIdentityJudgements" /\ WGt(m.identity_judgements, W(10))
    \/ err = "SuspiciousUpvoteRatio" /\ WGt(m.community_upvotes, WMul(m.community_posts, 100))
    \/ err = "InvalidStakingData" /\ m.staking_amount = W(0) /\ WGt(m.staking_duration, W(0))

ComponentsInRange(scores) ==
    /\ WLe(scores.governance_score, W(100))
    /\ WLe(scores.staking_score, W(100))
    /\ WLe(scores.identity_score, W(100))
    /\ WLe(scores.community_score, W(100))

\* C1: whenever compute_all_scores accepts the metrics and returns scores, each of the
\* governance, staking, identity and community scores is at most 100 (and, being
\* unsigned, at least 0).
C1_ComponentScoresBounded ==
    (call.op = "compute_all_scores" /\ IsOk(call.result))
        => ComponentsInRange(call.result.val)

\* C1 witness: scores were returned with the staking and governance scores at the cap.
C1_Witness ==
    /\ call.op = "compute_all_scores" /\ IsOk(call.result)
    /\ call.result.val.staking_score = W(100)
    /\ call.result.val.governance_score = W(100)

\* C2: when the four weights sum to 100 and each component score is at most 100, the
\* weighted combination is returned and is at most 100, both from
\* calculate_weighted_score directly and as weighted_total of compute_all_scores.
C2_WeightedTotalBounded ==
    /\ (call.op = "calculate_weighted_score"
        /\ WeightSum(input.weights) = W(100) /\ ComponentsInRange(input.scores))
           => (IsOk(call.result) /\ WLe(call.result.val, W(100)))
    /\ (call.op = "compute_all_scores" /\ IsOk(call.result)
        /\ WeightSum(input.weights) = W(100))
           => WLe(call.result.val.weighted_total, W(100))

\* C2 witness: weights 30/30/20/20 and four scores of 100 give exactly 100.
C2_Witness ==
    /\ call.op = "calculate_weighted_score"
    /\ input.weights = <<W(30), W(30), W(20), W(20)>>
    /\ ComponentsInRange(input.scores)
    /\ call.result = Ok(W(100))

\* C3 (the claim as stated): for four weights whose sum is not 100, a score
\* computation that reaches the weighting step returns InvalidWeights.
C3_Claim_InvalidWeightsRejected ==
    /\ (call.op = "calculate_weighted_score" /\ WeightSum(input.weights) # W(100))
           => call.result = Err("InvalidWeights")
    /\ (call.op = "compute_all_scores" /\ WeightSum(input.weights) # W(100)
        /\ IsOk(RawMetrics_validate(input.metrics)))
           => call.result = Err("InvalidWeights")

\* C4: validate returns Ok exactly when all five rules hold, and an error it returns
\* names a rule the metrics break.
C4_ValidateExact ==
    call.op = "validate"
        => /\ IsOk(call.result) <=> RulesHold(input.metrics)
           /\ IsErr(call.result) => RuleBroken(call.result.err, input.metrics)

\* C4 witness: validate reached its last rule and failed with InvalidStakingData.
C4_Witness ==
    /\ call.op = "validate"
    /\ call.result = Err("InvalidStakingData")

\* C5: with governance_votes above 10,000, compute_all_scores returns
\* InvalidGovernanceVotes having evaluated validate only, whatever the other fields
\* and the weights are.
C5_VotesRejectedFirst ==
    (call.op = "compute_all_scores" /\ WGt(input.metrics.governance_votes, W(10000)))
        => /\ call.result = Err("InvalidGovernanceVotes")
           /\ call.trace = <<"validate">>

\* C5 witness: the votes are rejected although the weights are invalid too and
\* another field breaks its own rule.
C5_Witness ==
    /\ call.op = "compute_all_scores"
    /\ WGt(input.metrics.governance_votes, W(10000))
    /\ WGt(input.metrics.governance_proposals, W(1000))
    /\ WeightSum(input.weights) # W(100)
    /\ call.result = Err("InvalidGovernanceVotes")

\* C6 (the claim as stated): a scoring entry point called with metrics that break a
\* validation rule returns an error, never a score.
C6_Claim_InvalidInputRejected ==
    (call.op \in {"compute_all_scores", "ScoreCalculator::calculate"}
     /\ ~RulesHold(input.metrics))
        => IsErr(call.result)

-----------------------------------------------------------------------------
(* Properties of the f64 scoring engine, checked under Spec *)

HistoryOf(history, account_id) ==
    IF account_id \in DOMAIN history THEN history[account_id] ELSE << >>

\* the step is a call of calculate_score that returned a snapshot
Scored == call'.op = "calculate_score" /\ IsOk(call'.result)

\* C7: a calculate_score call that fails validation leaves score_history as it was.
C7_FailureLeavesHistory ==
    [][(call'.op = "calculate_score" /\ ~IsOk(call'.result))
           => score_history' = score_history]_vars

\* C7 witness: a call has failed validation while snapshots were stored.
C7_Witness ==
    /\ call.op = "calculate_score" /\ IsErr(call.result)
    /\ \E a \in DOMAIN score_history : Len(score_history[a]) > 0

\* C8: a successful calculate_score call appends the snapshot it returns to the end of
\* the scored account's history and changes nothing else in score_history.
C8_SuccessAppendsOne ==
    [][Scored =>
          LET r == call'.result.val
          IN  /\ DOMAIN score_history' = DOMAIN score_history \cup {r.account_id}
              /\ score_history'[r.account_id] =
                     Append(HistoryOf(score_history, r.account_id), r)
              /\ \A b \in DOMAIN score_history \ {r.account_id} :
                     score_history'[b] = score_history[b]]_vars

\* C8 witness: a snapshot was appended behind an earlier one while another account
\* holds a snapshot too.
C8_Witness ==
    /\ call.op = "calculate_score" /\ IsOk(call.result)
    /\ Len(score_history[call.result.val.account_id]) = 2
    /\ score_history[call.result.val.account_id][2] = call.result.val
    /\ \E b \in DOMAIN score_history \ {call.result.val.account_id} :
           Len(score_history[b]) > 0

\* C9: a successful call for an account with no stored snapshot yields a snapshot with
\* decay factor 1.0.
C9_ColdStartNoDecay ==
    [][(Scored /\ ~HasHistory(score_history, call'.result.val.account_id))
           => call'.result.val.breakdown.time_decay_factor = 1000]_vars

\* C9 witness: the first snapshot of an account, taken on day 1 with decay enabled
\* while another account already has a snapshot, has decay factor 1.0.
C9_Witness ==
    /\ call.op = "calculate_score" /\ IsOk(call.result)
    /\ config.time_decay_enabled
    /\ call.result.val.timestamp = SECONDS_PER_DAY
    /\ score_history[call.result.val.account_id] = <<call.result.val>>
    /\ call.result.val.breakdown.time_decay_factor = 1000
    /\ \E b \in DOMAIN score_history \ {call.result.val.account_id} :
           Len(score_history[b]) > 0

\* the decay factor for the time from `snapshot` to the call at `timestamp`
DecaySince(snapshot, timestamp) ==
    PowF(config.time_decay_rate, SatSub(timestamp, snapshot.timestamp) \div SECONDS_PER_DAY)

LastOf(history, account_id) == history[account_id][Len(history[account_id])]

\* C10 (the claim as stated): for an account with prior snapshots, the decay factor of
\* a successful call is the one for the time elapsed since the account's most recent
\* prior snapshot.
C10_Claim_DecayFromLast ==
    [][(Scored /\ HasHistory(score_history, call'.result.val.account_id))
           => call'.result.val.breakdown.time_decay_factor =
                  DecaySince(LastOf(score_history, call'.result.val.account_id),
                             call'.result.val.timestamp)]_vars

\* C10 (amended): the same whenever the configuration has time decay enabled.
C10_DecayFromLastWhenEnabled ==
    [][(Scored /\ HasHistory(score_history, call'.result.val.account_id)
        /\ config.time_decay_enabled)
           => call'.result.val.breakdown.time_decay_factor =
                  DecaySince(LastOf(score_history, call'.result.val.account_id),
                             call'.result.val.timestamp)]_vars

\* C10 witness: with decay enabled, an account holding a snapshot of day 1 and then one
\* of day 0 is scored on day 1: the factor is that of one day (0.95), from the most
\* recent snapshot, not 1.0 from the older one.
C10_Witness ==
    /\ call.op = "calculate_score" /\ IsOk(call.result)
    /\ config.time_decay_enabled
    /\ LET h == score_history[call.result.val.account_id]
       IN  /\ Len(h) = 3
           /\ h[1].timestamp = SECONDS_PER_DAY
           /\ h[2].timestamp = 0
           /\ h[3] = call.result.val
           /\ h[3].timestamp = SECONDS_PER_DAY
           /\ h[3].breakdown.time_decay_factor = 950

\* C11 (the claim as stated): in every account's history no snapshot has a timestamp
\* smaller than that of the snapshot stored before it.
C11_Claim_HistoryChronological ==
    \A a \in DOMAIN score_history :
        \A i \in 1..(Len(score_history[a]) - 1) :
            score_history[a][i].timestamp <= score_history[a][i + 1].timestamp

-----------------------------------------------------------------------------
(* Properties of batch scoring, checked under SpecBatch *)

\* the item fails validation
Rejected(data) == IsErr(validate_data(data.metrics, overflow_checks))

Accepted(data) == ~Rejected(data)

\* C12 (the claim as stated): calculate_batch_scores returns one result per item, in
\* input order, with an error exactly at the items that fail validation, and scores and
\* stores the other items as a batch of those items alone would.
C12_Claim_BatchIsolatesFailures ==
    [][call'.op = "calculate_batch_scores" =>
          LET data_batch == call'.data_batch
              others == calculate_batch_scores(score_history, config,
                                               SelectSeq(data_batch, Accepted),
                                               overflow_checks)
          IN  /\ IsOk(call'.result)
              /\ Len(call'.result.val) = Len(data_batch)
              /\ \A i \in 1..Len(data_batch) :
                     /\ IsErr(call'.result.val[i]) <=> Rejected(data_batch[i])
                     /\ IsOk(call'.result.val[i]) =>
                            /\ call'.result.val[i].val.account_id = data_batch[i].account_id
                            /\ call'.result.val[i].val.timestamp = data_batch[i].timestamp
              /\ SelectSeq(call'.result.val, IsOk) = others.result.val
              /\ score_history' = others.history]_vars

-----------------------------------------------------------------------------
(* Properties of pruning, checked under Spec *)

\* C13: clear_old_history(max_age_seconds, current_timestamp) removes from each history
\* exactly the snapshots with current_timestamp - timestamp > max_age_seconds and keeps
\* the others as they were, in their order.
C13_PruneRemovesExactlyOld ==
    [][call'.op = "clear_old_history" =>
          LET Kept(score) ==
                  ~(call'.current_timestamp - score.timestamp > call'.max_age_seconds)
          IN  /\ DOMAIN score_history' = DOMAIN score_history
              /\ \A a \in DOMAIN score_history :
                     score_history'[a] = SelectSeq(score_history[a], Kept)]_vars

\* C13 witness: pruning on day 1 with a window of 0 has left an account with the one
\* snapshot of day 1, whose decay factor 0.95 tells that a snapshot of day 0 preceded it
\* in the history and was removed.
C13_Witness ==
    /\ call.op = "clear_old_history"
    /\ call.max_age_seconds = 0 /\ call.current_timestamp = SECONDS_PER_DAY
    /\ \E a \in DOMAIN score_history :
           /\ Len(score_history[a]) = 1
           /\ score_history[a][1].timestamp = SECONDS_PER_DAY
           /\ score_history[a][1].breakdown.time_decay_factor = 950

\* C14 (the claim as stated): a pruning call removes snapshots from the history of one
\* account only and leaves the histories of all other accounts unchanged.
C14_Claim_PruneOneAccount ==
    [][call'.op = "clear_old_history" =>
          \E account \in Accounts :
              \A other \in DOMAIN score_history \ {account} :
                  score_history'[other] = score_history[other]]_vars

-----------------------------------------------------------------------------
(* Properties of concurrent callers, checked under SpecConcurrent *)

\* the callers whose call for account_id has returned a snapshot
Succeeded(account_id) ==
    {i \in DOMAIN input.results :
        IsOk(input.results[i]) /\ input.requests[i].account_id = account_id}

\* C15: whatever the order in which concurrent calls are admitted, an account's history
\* holds the snapshot of each successful call for that account exactly once and nothing
\* else: failed calls and calls for other accounts add nothing to it.
C15_AppendsSerialized ==
    \A a \in Accounts :
        LET history == HistoryOf(score_history, a)
        IN  /\ Len(history) = Cardinality(Succeeded(a))
            /\ \A i \in Succeeded(a) :
                   Cardinality({k \in 1..Len(history) : history[k] = input.results[i].val})
                       = Cardinality({j \in Succeeded(a) :
                                         input.results[j] = input.results[i]})

\* C15 witness: all callers have returned; two of them scored alice with equal data and
\* both snapshots, equal to each other, are in her history, next to one snapshot of bob.
C15_Witness ==
    /\ DOMAIN input.results = Callers
    /\ "alice" \in DOMAIN score_history /\ "bob" \in DOMAIN score_history
    /\ Len(score_history["alice"]) = 2
    /\ score_history["alice"][1] = score_history["alice"][2]
    /\ Len(score_history["bob"]) = 1

-----------------------------------------------------------------------------
(* Properties of decay and penalties, checked under SpecLogic *)

\* less than one day has elapsed
NoFullDay(elapsed_seconds) == WLt(elapsed_seconds, W(86400))

\* C16 (the claim as stated): calculate_decay returns 100 whenever no full day has
\* elapsed, whatever the percent parameter.
C16_Claim_NoDecaySameDay ==
    (call.op = "calculate_decay" /\ NoFullDay(input.elapsed_seconds))
        => call.result = W(100)

\* C16 (amended): calculate_decay returns 100 whenever no full day has elapsed and the
\* percent parameter is below 100.
C16_NoDecaySameDayBelow100 ==
    (call.op = "calculate_decay" /\ NoFullDay(input.elapsed_seconds)
     /\ WLt(input.decay_rate_percent, W(100)))
        => call.result = W(100)

\* C16 witness: one second short of a day at 99 percent gives 100.
C16_Witness ==
    /\ call.op = "calculate_decay"
    /\ input.elapsed_seconds = W(86399) /\ input.decay_rate_percent = W(99)
    /\ call.result = W(100)

\* C17: calculate_decay returns 0 whenever the percent parameter is 100 or more,
\* whatever the elapsed time.
C17_FullDecayFrom100 ==
    (call.op = "calculate_decay" /\ WLe(W(100), input.decay_rate_percent))
        => call.result = W(0)

\* C17 witness: exactly 100 percent with no time elapsed gives 0.
C17_Witness ==
    /\ call.op = "calculate_decay"
    /\ input.elapsed_seconds = W(0) /\ input.decay_rate_percent = W(100)
    /\ call.result = W(0)

\* C18: the factor calculate_decay returns is at most 100 (and, being unsigned, at
\* least 0) for every elapsed time and percent parameter.
C18_DecayFactorBounded ==
    call.op = "calculate_decay" => WLe(call.result, W(100))

\* C18 witness: two days at 5 percent give 90, strictly between the ends.
C18_Witness ==
    /\ call.op = "calculate_decay"
    /\ input.elapsed_seconds = W(172800) /\ input.decay_rate_percent = W(5)
    /\ call.result = W(90)

\* the penalty points the contract words: 5, 3, 2 and 1, each on its own condition
PenaltyTerms(m) ==
    (IF ~m.identity_verified THEN 5 ELSE 0)
    + (IF m.governance_votes = W(0) /\ m.governance_proposals = W(0) THEN 3 ELSE 0)
    + (IF m.staking_amount = W(0) THEN 2 ELSE 0)
    + (IF m.community_posts = W(0) THEN 1 ELSE 0)

\* C19 (the claim as stated): the penalty computed for the metrics is the sum of the
\* four terms, by PenaltyCalculator::calculate_penalties and by the f64 engine's
\* calculate_negative_adjustments alike.
C19_Claim_PenaltyIsSumOfTerms ==
    /\ call.op = "calculate_penalties" => call.result = W(PenaltyTerms(input.metrics))
    /\ call.op = "calculate_negative_adjustments"
           => call.result = 1000 * PenaltyTerms(input.metrics)

\* C20: apply_penalties returns score - penalty when the penalty does not exceed the
\* score and 0 otherwise.
C20_PenaltySaturatesAtZero ==
    call.op = "apply_penalties"
        => IF WLe(input.penalty_points, input.score)
           THEN WAdd(call.result, input.penalty_points) = input.score
           ELSE call.result = W(0)

\* C20 witness: a score of 5 under a penalty of 11 gives 0.
C20_Witness ==
    /\ call.op = "apply_penalties"
    /\ input.score = W(5) /\ input.penalty_points = W(11)
    /\ call.result = W(0)

-----------------------------------------------------------------------------
(* Properties of the transforms and of normalize, checked under SpecLogic *)

\* C21: for staking amounts a <= b and the same duration, the staking score of a is at
\* most the staking score of b.
C21_StakingMonotoneInAmount ==
    (call.op = "calculate_staking_score" /\ WLe(input.a, input.b))
        => WLe(call.of_a, call.of_b)

\* C21 witness: amounts 3 and 8 over 30 days score 35 and 55.
C21_Witness ==
    /\ call.op = "calculate_staking_score"
    /\ input.a = W(3) /\ input.b = W(8) /\ input.duration = W(2592000)
    /\ call.of_a = W(35) /\ call.of_b = W(55)

\* C22 (the claim as stated): the four transforms return values of at most 100 for every
\* metrics value, validated or not, and never panic: those of the ink logic and those
\* ScoreCalculator::calculate applies.
C22_Claim_TransformsTotal ==
    /\ call.op = "calculate_component_scores" => ComponentsInRange(call.result)
    /\ call.op = "ScoreCalculator::calculate"
           => (IsOk(call.result) /\ ComponentsInRange(call.result.val))

\* C23: normalize is idempotent: normalizing the result of normalize again returns the
\* same metrics, field for field.
C23_NormalizeIdempotent ==
    call.op = "normalize" => call.again = call.result

\* C23 witness: normalize clamped a vote count of 10001 to 10000 and the second
\* normalize left the result as it was.
C23_Witness ==
    /\ call.op = "normalize"
    /\ input.metrics.governance_votes = W(10001)
    /\ call.result.governance_votes = W(MAX_GOVERNANCE_VOTES)
    /\ call.again = call.result

\* the two conditions the specification states of normalized metrics
NormalizedInvariant(m) ==
    /\ m.staking_amount = W(0) => m.staking_duration = W(0)
    /\ WLe(m.community_upvotes, WMul(m.community_posts, 100))

\* C24 (the claim as stated): after normalization, by RawMetrics::normalize as by
\* DataCleaner::normalize_chain_data, a zero staking amount comes with a zero staking
\* duration and the upvotes are at most 100 times the posts, for every input.
C24_Claim_NormalizedInvariant ==
    /\ call.op = "normalize" => NormalizedInvariant(call.result)
    /\ call.op = "normalize_chain_data"
           => (IsOk(call.result) /\ NormalizedInvariant(call.result.val))

\* an anomaly list holds the given anomaly
Reports(anomalies, anomaly) == \E i \in DOMAIN anomalies : anomalies[i] = anomaly

\* C25 (the claim as stated): detect_anomalies reports the inconsistent-identity anomaly
\* whenever the judgement count is above 0 and the identity is not verified, in
\* DataValidator as in DataCleaner.
C25_Claim_InconsistentIdentity ==
    (/\ call.op = "detect_anomalies"
     /\ WGt(input.metrics.identity_judgements, W(0))
     /\ ~input.metrics.identity_verified)
        => /\ Reports(call.validator, "InconsistentIdentity")
           /\ IsOk(call.cleaner)
           /\ Reports(call.cleaner.val, "Judgements without verification")


-----------------------------------------------------------------------------
(* The loop of calculate_decay, checked under SpecLogic *)

\* C27 (the claim as stated): calculate_decay runs its loop at most a fixed number of
\* times whatever the elapsed seconds and the percent parameter are.  The fixed number
\* here is 100, the starting factor, which an iteration lowering the factor by at least
\* one cannot outlast.
C27_Claim_DecayIterationsBounded ==
    call.op = "calculate_decay" => call.iterations <= 100


-----------------------------------------------------------------------------
(* The parallel batch scorer against the sequential one, checked under SpecBatch *)

\* the items of a batch are of different accounts
DistinctAccounts(data_batch) ==
    \A i, j \in DOMAIN data_batch : i # j => data_batch[i].account_id # data_batch[j].account_id

\* C28 (the claim as stated): on the same engine and the same batch of distinct accounts
\* calculate_parallel_scores returns the results calculate_batch_scores returns, item
\* for item, and leaves score_history as calculate_batch_scores leaves it.
C28_Claim_ParallelEqualsSequential ==
    (call.op = "calculate_parallel_scores" /\ DistinctAccounts(call.data_batch))
        => /\ call.result = call.sequential.result
           /\ score_history = call.sequential.history


-----------------------------------------------------------------------------
(* governance.rs: the OptionalReputation contract                          *)
(*                                                                         *)
(* A Mapping is a function on the keys it holds.  The block timestamp that *)
(* set_score, batch_set_scores and verify_user store is never read back by *)
(* a message and is left out, as are the events.  Every message returns    *)
(* its error before it writes, so a failed call leaves the storage as it   *)
(* was.                                                                    *)

AccountIds == {"alice", "bob"}

\* the total scores of the calls of set_score: below 50 and from 80
TotalScores == {40, 90}

\* Mapping::insert
MapInsert(m, k, v) == [a \in DOMAIN m \cup {k} |-> IF a = k THEN v ELSE m[a]]

\* Mapping::remove
MapRemove(m, k) == [a \in DOMAIN m \ {k} |-> m[a]]

\* Mapping::get(..).unwrap_or(default)
MapGetOr(m, k, default) == IF k \in DOMAIN m THEN m[k] ELSE default

\* OptionalReputation::new(minimum_score_threshold) called by `caller`
OptionalReputation_new(caller, minimum_score_threshold) ==
    [deployed                |-> TRUE,
     owner                   |-> caller,
     scores                  |-> << >>,
     roles                   |-> MapInsert(<< >>, caller, "Owner"),
     verifications           |-> << >>,
     score_writers           |-> MapInsert(<< >>, caller, TRUE),
     total_registered        |-> 0,
     minimum_score_threshold |-> minimum_score_threshold]

only_owner(self, caller) ==
    IF caller # self.owner THEN Err("Unauthorized") ELSE Ok("unit")

only_score_writer(self, caller) ==
    IF caller = self.owner THEN Ok("unit")
    ELSE IF ~MapGetOr(self.score_writers, caller, FALSE) THEN Err("Unauthorized")
    ELSE Ok("unit")

auto_assign_role(self, account, total_score) ==
    LET role == IF total_score >= 80 THEN "GovernanceParticipant"
                ELSE IF total_score >= 50 THEN "VerifiedUser"
                ELSE "Regular"
    IN  [self EXCEPT !.roles = MapInsert(@, account, role)]

\* the score batch_set_scores stores for a total
BatchScore(total_score) ==
    [total_score |-> total_score, governance_score |-> 0, staking_score |-> 0,
     identity_score |-> 0, community_score |-> 0]

\* the `for (account, total_score) in accounts.iter().zip(scores.iter())` loop of
\* batch_set_scores from pair k on
RECURSIVE batch_insert(_, _, _, _)
batch_insert(scores_map, accounts, scores, k) ==
    IF k > Len(accounts) THEN scores_map
    ELSE batch_insert(MapInsert(scores_map, accounts[k], BatchScore(scores[k])),
                      accounts, scores, k + 1)

\* the component scores set_score is called with, those of the tests
ComponentScores == <<25, 25, 15, 10>>

\* the account lists and score lists of batch_set_scores: up to two entries each
AccountLists == {<< >>, <<"bob">>, <<"bob", "alice">>}

ScoreLists == {<<90>>, <<40, 90>>}

InitReputation ==
    /\ EngineNew
    /\ overflow_checks = TRUE
    /\ input = [kind |-> "none"]
    /\ call = [op |-> "new", caller |-> "alice"]
    /\ reputation = OptionalReputation_new("alice", 50)
    /\ referendum = [created |-> FALSE]

SetScore ==
    \E caller \in AccountIds, account \in AccountIds, total_score \in TotalScores :
        LET is_new == account \notin DOMAIN reputation.scores
            score  == [total_score      |-> total_score,
                       governance_score |-> ComponentScores[1],
                       staking_score    |-> ComponentScores[2],
                       identity_score   |-> ComponentScores[3],
                       community_score  |-> ComponentScores[4]]
            stored == [reputation EXCEPT !.scores = MapInsert(@, account, score)]
            counted == IF is_new
                       THEN [stored EXCEPT !.total_registered = @ + 1,
                                           !.roles = MapInsert(@, account, "Regular")]
                       ELSE stored
        IN  /\ call' = [op |-> "set_score", caller |-> caller,
                        result |-> only_score_writer(reputation, caller)]
            /\ reputation' = IF IsOk(only_score_writer(reputation, caller))
                             THEN auto_assign_role(counted, account, total_score)
                             ELSE reputation
            /\ UNCHANGED <<score_history, config, overflow_checks, input, referendum>>

BatchSetScores ==
    \E caller \in AccountIds, accounts \in AccountLists, scores \in ScoreLists :
        LET result == IF ~IsOk(only_score_writer(reputation, caller))
                      THEN only_score_writer(reputation, caller)
                      ELSE IF Len(accounts) # Len(scores) THEN Err("InvalidScore")
                      ELSE Ok(Len(accounts))
        IN  /\ call' = [op |-> "batch_set_scores", caller |-> caller,
                        result |-> result]
            /\ reputation' = IF IsOk(result)
                             THEN [reputation EXCEPT
                                      !.scores = batch_insert(@, accounts, scores, 1)]
                             ELSE reputation
            /\ UNCHANGED <<score_history, config, overflow_checks, input, referendum>>

VerifyUser ==
    \E caller \in AccountIds, account \in {"bob"} :
        LET result == IF ~IsOk(only_owner(reputation, caller))
                      THEN only_owner(reputation, caller)
                      ELSE IF MapGetOr(reputation.verifications, account,
                                       [is_verified |-> FALSE]).is_verified
                      THEN Err("AlreadyVerified")
                      ELSE Ok("unit")
        IN  /\ call' = [op |-> "verify_user", caller |-> caller,
                        result |-> result]
            /\ reputation' = IF IsOk(result)
                             THEN [reputation EXCEPT !.verifications =
                                      MapInsert(@, account, [is_verified |-> TRUE,
                                                             verifier    |-> caller])]
                             ELSE reputation
            /\ UNCHANGED <<score_history, config, overflow_checks, input, referendum>>

GrantRole ==
    \E caller \in AccountIds, account \in AccountIds, role \in {"VerifiedUser"} :
        /\ call' = [op |-> "grant_role", caller |-> caller,
                    result |-> only_owner(reputation, caller)]
        /\ reputation' = IF IsOk(only_owner(reputation, caller))
                         THEN [reputation EXCEPT !.roles = MapInsert(@, account, role)]
                         ELSE reputation
        /\ UNCHANGED <<score_history, config, overflow_checks, input, referendum>>

AddScoreWriter ==
    \E caller \in AccountIds, writer \in AccountIds :
        /\ call' = [op |-> "add_score_writer", caller |-> caller,
                    result |-> only_owner(reputation, caller)]
        /\ reputation' = IF IsOk(only_owner(reputation, caller))
                         THEN [reputation EXCEPT !.score_writers = MapInsert(@, writer, TRUE)]
                         ELSE reputation
        /\ UNCHANGED <<score_history, config, overflow_checks, input, referendum>>

RemoveScoreWriter ==
    \E caller \in AccountIds, writer \in AccountIds :
        /\ call' = [op |-> "remove_score_writer", caller |-> caller,
                    result |-> only_owner(reputation, caller)]
        /\ reputation' = IF IsOk(only_owner(reputation, caller))
                         THEN [reputation EXCEPT !.score_writers = MapRemove(@, writer)]
                         ELSE reputation
        /\ UNCHANGED <<score_history, config, overflow_checks, input, referendum>>

UpdateMinimumThreshold ==
    \E caller \in AccountIds, new_threshold \in {75} :
        /\ call' = [op |-> "update_minimum_threshold", caller |-> caller,
                    result |-> only_owner(reputation, caller)]
        /\ reputation' = IF IsOk(only_owner(reputation, caller))
                         THEN [reputation EXCEPT !.minimum_score_threshold = new_threshold]
                         ELSE reputation
        /\ UNCHANGED <<score_history, config, overflow_checks, input, referendum>>

TransferOwnership ==
    \E caller \in AccountIds, new_owner \in AccountIds :
        LET roles1 == MapInsert(reputation.roles, new_owner, "Owner")
            roles2 == MapInsert(roles1, reputation.owner, "Regular")
        IN  /\ call' = [op |-> "transfer_ownership", caller |-> caller,
                        result |-> only_owner(reputation, caller)]
            /\ reputation' = IF IsOk(only_owner(reputation, caller))
                             THEN [reputation EXCEPT
                                      !.roles = roles2,
                                      !.score_writers = MapInsert(@, new_owner, TRUE),
                                      !.owner = new_owner]
                             ELSE reputation
            /\ UNCHANGED <<score_history, config, overflow_checks, input, referendum>>

NextReputation ==
    \/ SetScore
    \/ BatchSetScores
    \/ VerifyUser
    \/ GrantRole
    \/ AddScoreWriter
    \/ RemoveScoreWriter
    \/ UpdateMinimumThreshold
    \/ TransferOwnership

SpecReputation == InitReputation /\ [][NextReputation]_vars

\* C26 (the claim as stated): total_registered is the number of accounts that have a
\* stored score, whatever calls of set_score and batch_set_scores have succeeded.
C26_Claim_TotalRegisteredCountsScores ==
    reputation.total_registered = Cardinality(DOMAIN reputation.scores)


\* the messages that start with only_owner or only_score_writer
PrivilegedOps ==
    {"set_score", "batch_set_scores", "verify_user", "grant_role", "add_score_writer",
     "remove_score_writer", "update_minimum_threshold", "transfer_ownership"}

\* C29 (the claim as stated): once transfer_ownership has handed the contract to another
\* account, the previous owner's next call of a message reserved to the owner or to the
\* score writers fails with Unauthorized: nobody has added the previous owner as a score
\* writer in between.
C29_Claim_PreviousOwnerUnauthorized ==
    [][(/\ call.op = "transfer_ownership" /\ IsOk(call.result)
        /\ reputation.owner # call.caller
        /\ call'.caller = call.caller
        /\ call'.op \in PrivilegedOps)
           => call'.result = Err("Unauthorized")]_vars


-----------------------------------------------------------------------------
(* governance.rs: a Referendum                                             *)
(*                                                                         *)
(* id, proposer, start_time and end_time are set by Referendum::new and    *)
(* neither read nor written by start_voting, cast_vote and finalize; they  *)
(* are left out.  The balances of the model are far below the u128 range.  *)
(* threshold is a percentage: 50 stands for the f64 0.5.                   *)

\* the most votes a referendum holds
MaxVotes == 2

\* the votes cast: voter 1, with or without voting power, with conviction 1 or 2
VoteSet ==
    [voter : {1}, vote_type : {"Aye", "Nay", "Abstain"}, balance : {0, 500},
     conviction : {1, 2}]

\* Referendum::new(id, proposer, duration, threshold)
Referendum_new(threshold) ==
    [created |-> TRUE, status |-> "Proposed", votes |-> << >>,
     ayes |-> 0, nays |-> 0, abstains |-> 0, threshold |-> threshold]

InitReferendum ==
    /\ EngineNew
    /\ overflow_checks = TRUE
    /\ input = [kind |-> "none"]
    /\ call = [op |-> "new"]
    /\ reputation = [deployed |-> FALSE]
    /\ referendum \in {Referendum_new(50), Referendum_new(75)}

StartVoting ==
    /\ referendum' = [referendum EXCEPT !.status = "Voting"]
    /\ call' = [op |-> "start_voting"]
    /\ UNCHANGED <<score_history, config, overflow_checks, input, reputation>>

CastVote ==
    \E vote \in VoteSet :
        LET weighted_balance == vote.balance * vote.conviction
        IN  /\ referendum.status = "Voting" => Len(referendum.votes) < MaxVotes
            /\ referendum' =
                  IF referendum.status # "Voting" THEN referendum
                  ELSE [referendum EXCEPT
                           !.ayes = IF vote.vote_type = "Aye"
                                    THEN @ + weighted_balance ELSE @,
                           !.nays = IF vote.vote_type = "Nay"
                                    THEN @ + weighted_balance ELSE @,
                           !.abstains = IF vote.vote_type = "Abstain"
                                        THEN @ + weighted_balance ELSE @,
                           !.votes = Append(@, vote)]
            /\ call' = [op |-> "cast_vote", vote |-> vote]
            /\ UNCHANGED <<score_history, config, overflow_checks, input, reputation>>

\* aye_ratio >= self.threshold with the ratio ayes / total_votes kept as a fraction
Finalize ==
    LET total_votes == referendum.ayes + referendum.nays + referendum.abstains
        passed      == referendum.ayes * 100 >= referendum.threshold * total_votes
    IN  /\ referendum' =
              IF referendum.status # "Voting" THEN referendum
              ELSE IF total_votes = 0 THEN [referendum EXCEPT !.status = "Rejected"]
              ELSE IF passed THEN [referendum EXCEPT !.status = "Passed"]
              ELSE [referendum EXCEPT !.status = "Rejected"]
        /\ call' = [op     |-> "finalize",
                    result |-> referendum.status = "Voting" /\ total_votes # 0 /\ passed]
        /\ UNCHANGED <<score_history, config, overflow_checks, input, reputation>>

NextReferendum ==
    \/ StartVoting
    \/ CastVote
    \/ Finalize

SpecReferendum == InitReferendum /\ [][NextReferendum]_vars

\* C30 (the claim as stated): once the referendum is Passed or Rejected, no call of
\* start_voting, cast_vote or finalize changes its status or its aye, nay and abstain
\* tallies.
C30_Claim_FinalizedIsFinal ==
    [][referendum.status \in {"Passed", "Rejected"}
          => /\ referendum'.status = referendum.status
             /\ referendum'.ayes = referendum.ayes
             /\ referendum'.nays = referendum.nays
             /\ referendum'.abstains = referendum.abstains]_vars

====
